---- MODULE Spec2Model ----
(***************************************************************************)
(* The three tutorial programs of learn-luminance: the frame loop of       *)
(* chapters 1 to 3 and the OBJ mesh loader (Obj::load) of chapter 3.       *)
(*                                                                         *)
(* The output of the external parser (obj::parse) is read as the loader    *)
(* consumes it: the loader never looks ahead, so drawing each shape and    *)
(* each corner when the loop reaches it covers every parsed structure up   *)
(* to MaxShapes shapes.  Indices handed over by the parser range over the  *)
(* whole of their type's small prefix, including one past the end of the   *)
(* coordinate arrays and an absent (None) texture or normal index.         *)
(***************************************************************************)
EXTENDS Integers, Sequences, FiniteSets, TLC

VARIABLES
  chapter,       \* which example program runs (1, 2 or 3)
  pc,            \* position of the program
  calls,         \* number of Obj::load calls begun
  file,          \* what the file system / parser did for the current call
  nobjects,      \* objects.len() of the parsed set
  ngeoms,        \* object.geometry.len()
  shape,         \* primitive of the shape being processed
  corners,       \* keys of the triangle corners read so far, in source order
  key,           \* the corner being resolved (loop variable of line 110)
  vertex_cache,  \* HashMap<VTNIndex, VertexIndex>
  vertices,      \* Vec<Vertex>
  indices,       \* Vec<VertexIndex>
  result,        \* what Obj::load returned
  mesh,          \* the Tess built by to_tess
  events,        \* window events not yet handled in this iteration
  polled,        \* the events polled in this iteration
  render,        \* result of the last pipeline run
  frames,        \* iterations begun
  rendered,      \* pipeline runs
  swapped        \* buffer swaps

vars == << chapter, pc, calls, file, nobjects, ngeoms, shape, corners, key,
           vertex_cache, vertices, indices, result, mesh, events, polled,
           render, frames, rendered, swapped >>

loadVars == << file, nobjects, ngeoms, shape, corners, key, vertex_cache,
               vertices, indices, result >>

loopVars == << events, polled, render, frames, rendered, swapped >>

(***************************************************************************)
(* Bounds of the model.                                                    *)
(***************************************************************************)
MaxShapes == 2
MaxObjects == 2
MaxGeometries == 2
MaxEvents == 2
MaxFrames == 2
MaxCalls == 2

(***************************************************************************)
(* Option<usize>: None is the empty tuple, Some(i) the tuple of i.         *)
(***************************************************************************)
None == << >>
Some(i) == << i >>
IsSome(o) == o # None
Unwrap(o) == o[1]

(***************************************************************************)
(* object.vertices and object.normals of the parsed object (f64 triples),  *)
(* and the indices a corner may carry.                                     *)
(***************************************************************************)
ObjVertices == << << 0, 1, 16777217 >>, << 1, 0, 33554430 >> >>
ObjNormals == << << 0, 0, 1 >> >>

PositionIdx == 0 .. Len(ObjVertices)
NormalIdx == {None} \cup {Some(i) : i \in 0 .. Len(ObjNormals)}
TexIdx == {None, Some(0)}

\* obj::VTNIndex = (usize, Option<usize>, Option<usize>)
VTNIndex == PositionIdx \X TexIdx \X NormalIdx

\* The value of key outside the loop over the corners, where it does not exist.
NoKey == << >>

(***************************************************************************)
(* `as f32` on an integer-valued f64 below 2^25: 24 bits of significand,   *)
(* round to nearest, ties to even.                                         *)
(***************************************************************************)
F32Exact == 16777216
AsF32(x) ==
  IF x < F32Exact \/ x % 2 = 0 THEN x
  ELSE IF (x + 1) % 4 = 0 THEN x + 1 ELSE x - 1

NoResult == [tag |-> "none"]
Ok(vs, ix) == [tag |-> "ok", vertices |-> vs, indices |-> ix]
Err(msg) == [tag |-> "err", msg |-> msg]
Panic == [tag |-> "panic"]

EmptyMap == [k \in {} |-> 0]

(***************************************************************************)
(* The pieces of the loop body of Obj::load.                               *)
(***************************************************************************)
KeyWithoutTex(k) == << k[1], None, k[3] >>
CacheKey(k) == k

CacheGet(cache, k) ==
  IF CacheKey(k) \in DOMAIN cache THEN Some(cache[CacheKey(k)]) ELSE None

CacheInsertFirst(cache, k, i) ==
  [x \in DOMAIN cache \cup {CacheKey(k)} |-> 0]
CacheInsert(cache, k, i) ==
  [x \in DOMAIN cache \cup {CacheKey(k)} |->
     IF x = CacheKey(k) THEN i ELSE cache[x]]

\* vertices.len() as VertexIndex: the cast to u32 is exact below 2^32, far
\* above any length reached here.
OnePastVertexIndex(vs) == Len(vs) + 1
NextVertexIndex(vs) == Len(vs)

\* lines 114-118, for a key whose indices are in range
MakeVertex(k) ==
  LET p == ObjVertices[k[1] + 1]
      n == ObjNormals[Unwrap(k[3]) + 1]
  IN  [position |-> << AsF32(p[1]), AsF32(p[2]), AsF32(p[3]) >>,
       normal |-> << AsF32(n[1]), AsF32(n[2]), AsF32(n[3]) >>]

PushVertexFront(vs, v) == << v >> \o vs
PushVertex(vs, v) == Append(vs, v)

SkipHitIndex(ix, i) == ix
PushHitIndex(ix, i) == Append(ix, i)

StaleVertexCache == vertex_cache
NewVertexCache == EmptyMap

\* Obj::to_tess: the Tess holds the buffers built from the Mesh.
NoTess == [built |-> FALSE, nvertices |-> 0, nindices |-> 0]
Tess(vs, ix) == [built |-> TRUE, nvertices |-> Len(vs), nindices |-> Len(ix)]

(***************************************************************************)
(* The window events of an iteration, and the two tests of the frame loop. *)
(***************************************************************************)
WindowEvent == {"Close", "EscapeRelease", "EscapePress", "Other"}

RECURSIVE SeqsUpTo(_, _)
SeqsUpTo(S, n) ==
  IF n = 0 THEN {<< >>}
  ELSE LET shorter == SeqsUpTo(S, n - 1)
       IN  shorter \cup {Append(q, e) : q \in shorter, e \in S}

IsCloseOnly(e) == e = "Close"
IsExitEvent(e) == e \in {"Close", "EscapeRelease"}

ShouldSwap(r) == r = "ok"

PositionInRange(k) == k[1] < Len(ObjVertices)
NormalInRange(k) == IsSome(k[3]) /\ Unwrap(k[3]) < Len(ObjNormals)

(***************************************************************************)
(* Initial state: the program has just started.                            *)
(***************************************************************************)
Init ==
  /\ chapter \in 1 .. 3
  /\ pc = "main"
  /\ calls = 0
  /\ file = "none"
  /\ nobjects = 0
  /\ ngeoms = 0
  /\ shape = "none"
  /\ corners = << >>
  /\ key = NoKey
  /\ vertex_cache = EmptyMap
  /\ vertices = << >>
  /\ indices = << >>
  /\ result = NoResult
  /\ mesh = NoTess
  /\ events = << >>
  /\ polled = << >>
  /\ render = "none"
  /\ frames = 0
  /\ rendered = 0
  /\ swapped = 0

\* main: the surface is created, or the program exits with status 1.
Main ==
  /\ pc = "main"
  /\ \/ pc' = IF chapter = 3 THEN "args" ELSE "setup"
     \/ pc' = "exit1"
  /\ UNCHANGED << chapter, calls, mesh >>
  /\ UNCHANGED loadVars
  /\ UNCHANGED loopVars

\* chapter 3, main_loop: the path argument is read, then Obj::load is called.
ReadArgs ==
  /\ pc = "args"
  /\ \/ pc' = "load" /\ calls' = calls + 1
     \/ pc' = "panicked" /\ calls' = calls
  /\ UNCHANGED << chapter, mesh >>
  /\ UNCHANGED loadVars
  /\ UNCHANGED loopVars

\* What a call of Obj::load leaves behind when it ends without a Mesh: its
\* locals are dropped; the offending shape and corner stay in shape and key.
Fail(r, f, no, ng, sh, k) ==
  /\ result' = r
  /\ file' = f
  /\ nobjects' = no
  /\ ngeoms' = ng
  /\ shape' = sh
  /\ key' = k
  /\ corners' = << >>
  /\ vertex_cache' = EmptyMap
  /\ vertices' = << >>
  /\ indices' = << >>
  /\ pc' = IF r = Panic THEN "panicked" ELSE "loaded"

\* Obj::load up to the loop: the file is opened, read and parsed, the object
\* and geometry counts are verified and the locals are created.
LoadBegin ==
  /\ pc = "load"
  /\ \/ Fail(Err("cannot open file"), "missing", 0, 0, "none", NoKey)
     \/ Fail(Panic, "unreadable", 0, 0, "none", NoKey)
     \/ Fail(Err("cannot parse"), "malformed", 0, 0, "none", NoKey)
     \/ \E no \in 0 .. MaxObjects :
          /\ no # 1
          /\ Fail(Err("expecting a single object"), "ok", no, 0, "none", NoKey)
     \/ \E ng \in 0 .. MaxGeometries :
          /\ ng # 1
          /\ Fail(Err("expecting a single geometry"), "ok", 1, ng, "none", NoKey)
     \/ /\ file' = "ok"
        /\ nobjects' = 1
        /\ ngeoms' = 1
        /\ shape' = "none"
        /\ corners' = << >>
        /\ vertex_cache' = NewVertexCache
        /\ vertices' = << >>
        /\ indices' = << >>
        /\ result' = NoResult
        /\ key' = NoKey
        /\ pc' = "shapes"
  /\ UNCHANGED << chapter, calls, mesh >>
  /\ UNCHANGED loopVars

\* for shape in geometry.shapes: the next shape, or the end of the list.
NextShape ==
  /\ pc = "shapes"
  /\ \/ /\ result' = Ok(vertices, indices)
        /\ pc' = "loaded"
        /\ UNCHANGED << file, nobjects, ngeoms, shape, corners, key,
                        vertex_cache, vertices, indices >>
     \/ /\ Len(corners) < 3 * MaxShapes
        /\ \E sh \in {"Point", "Line"} :
             Fail(Err("unsupported non-triangle shape"), file, nobjects,
                  ngeoms, sh, NoKey)
     \/ /\ Len(corners) < 3 * MaxShapes
        /\ shape' = "Triangle"
        /\ pc' = "corner"
        /\ UNCHANGED << file, nobjects, ngeoms, corners, key, vertex_cache,
                        vertices, indices, result >>
  /\ UNCHANGED << chapter, calls, mesh >>
  /\ UNCHANGED loopVars

\* for key in &[a, b, c]: one corner of the triangle.
Corner ==
  /\ pc = "corner"
  /\ \E k \in VTNIndex :
       LET hit == CacheGet(vertex_cache, k) IN
       IF IsSome(hit) THEN
         /\ indices' = PushHitIndex(indices, Unwrap(hit))
         /\ corners' = Append(corners, k)
         /\ key' = k
         /\ pc' = IF Len(corners') % 3 = 0 THEN "shapes" ELSE "corner"
         /\ UNCHANGED << file, nobjects, ngeoms, shape, vertex_cache,
                         vertices, result >>
       ELSE IF ~PositionInRange(k) THEN
         Fail(Panic, file, nobjects, ngeoms, shape, k)
       ELSE IF ~IsSome(k[3]) THEN
         Fail(Err("missing normal for a vertex"), file, nobjects, ngeoms,
              shape, k)
       ELSE IF ~NormalInRange(k) THEN
         Fail(Panic, file, nobjects, ngeoms, shape, k)
       ELSE
         LET vertex_index == NextVertexIndex(vertices) IN
         /\ vertex_cache' = CacheInsert(vertex_cache, k, vertex_index)
         /\ vertices' = PushVertex(vertices, MakeVertex(k))
         /\ indices' = Append(indices, vertex_index)
         /\ corners' = Append(corners, k)
         /\ key' = k
         /\ pc' = IF Len(corners') % 3 = 0 THEN "shapes" ELSE "corner"
         /\ UNCHANGED << file, nobjects, ngeoms, shape, result >>
  /\ UNCHANGED << chapter, calls, mesh >>
  /\ UNCHANGED loopVars

\* chapter 3, line 162: Obj::load(path).unwrap().to_tess(&mut surface).unwrap()
\* The Obj is consumed by to_tess; the locals of load are gone.
BuildTess ==
  /\ pc = "loaded"
  /\ \/ /\ result.tag = "ok"
        /\ \/ /\ mesh' = Tess(result.vertices, result.indices)
              /\ pc' = "setup"
              /\ result' = NoResult
              /\ corners' = << >>
              /\ vertex_cache' = EmptyMap
              /\ vertices' = << >>
              /\ indices' = << >>
              /\ UNCHANGED << file, nobjects, ngeoms, shape, key >>
           \/ /\ pc' = "panicked"
              /\ result' = NoResult
              /\ corners' = << >>
              /\ vertex_cache' = EmptyMap
              /\ vertices' = << >>
              /\ indices' = << >>
              /\ UNCHANGED << mesh, file, nobjects, ngeoms, shape, key >>
     \/ /\ result.tag = "err"
        /\ pc' = "panicked"
        /\ UNCHANGED mesh
        /\ UNCHANGED loadVars
  /\ UNCHANGED << chapter, calls >>
  /\ UNCHANGED loopVars

\* What main_loop builds before the loop: the back buffer (all chapters), the
\* triangle Tess (chapter 2) and the shader program (chapters 2 and 3); each
\* is unwrapped, so a failure aborts the program.
Setup ==
  /\ pc = "setup"
  /\ \/ pc' = "poll"
     \/ pc' = "panicked"
  /\ UNCHANGED << chapter, calls, mesh >>
  /\ UNCHANGED loadVars
  /\ UNCHANGED loopVars

\* poll_events: the events of this iteration arrive.
PollEvents ==
  /\ pc = "poll"
  /\ frames < MaxFrames
  /\ \E evs \in SeqsUpTo(WindowEvent, MaxEvents) :
       /\ events' = evs
       /\ polled' = evs
  /\ render' = "none"
  /\ frames' = frames + 1
  /\ pc' = "events"
  /\ UNCHANGED << chapter, calls, mesh, rendered, swapped >>
  /\ UNCHANGED loadVars

\* for (_, event) in ...: one event, or the end of the pending events.
HandleEvent ==
  /\ pc = "events"
  /\ IF events = << >> THEN
       /\ pc' = "render"
       /\ UNCHANGED events
     ELSE IF IsExitEvent(Head(events)) THEN
       /\ pc' = "done"
       /\ UNCHANGED events
     ELSE
       /\ events' = Tail(events)
       /\ UNCHANGED pc
  /\ UNCHANGED << chapter, calls, mesh, polled, render, frames, rendered,
                  swapped >>
  /\ UNCHANGED loadVars

\* The pipeline of the iteration runs; chapter 3 first unwraps the back
\* buffer it asks for in every iteration.
Render ==
  /\ pc = "render"
  /\ \/ /\ \E r \in {"ok", "err"} : render' = r
        /\ rendered' = rendered + 1
        /\ pc' = "swap"
     \/ /\ chapter = 3
        /\ pc' = "panicked"
        /\ UNCHANGED << render, rendered >>
  /\ UNCHANGED << chapter, calls, mesh, events, polled, frames, swapped >>
  /\ UNCHANGED loadVars

\* if render.is_ok() { swap_buffers() } else { break 'app }
SwapBuffers ==
  /\ pc = "swap"
  /\ IF ShouldSwap(render) THEN
       /\ swapped' = swapped + 1
       /\ pc' = "poll"
     ELSE
       /\ pc' = "done"
       /\ UNCHANGED swapped
  /\ UNCHANGED << chapter, calls, mesh, events, polled, render, frames,
                  rendered >>
  /\ UNCHANGED loadVars

\* Another call of Obj::load by the same process, after one has returned.
LoadAgain ==
  /\ pc = "loaded"
  /\ calls < MaxCalls
  /\ calls' = calls + 1
  /\ pc' = "load"
  /\ UNCHANGED << chapter, mesh >>
  /\ UNCHANGED loadVars
  /\ UNCHANGED loopVars

Next ==
  \/ Main
  \/ ReadArgs
  \/ LoadBegin
  \/ NextShape
  \/ Corner
  \/ BuildTess
  \/ Setup
  \/ PollEvents
  \/ HandleEvent
  \/ Render
  \/ SwapBuffers

\* The program as it is: one call of Obj::load per run.
Spec == Init /\ [][Next]_vars

\* A caller that loads several files in a row.
ReloadNext == Next \/ LoadAgain
ReloadSpec == Init /\ [][ReloadNext]_vars

(***************************************************************************)
(* Vocabulary of the properties.                                           *)
(***************************************************************************)
Returned == result.tag = "ok"
InLoop == pc \in {"shapes", "corner"}
Exited == result.tag \in {"ok", "err", "panic"}

KeysOf(cs) == {cs[i] : i \in DOMAIN cs}
PairOf(k) == << k[1], k[3] >>
PairsOf(cs) == {PairOf(cs[i]) : i \in DOMAIN cs}

\* The keys of cs in the order they are first met.
RECURSIVE Firsts(_)
Firsts(cs) ==
  IF cs = << >> THEN << >>
  ELSE LET f == Firsts(SubSeq(cs, 1, Len(cs) - 1))
           k == cs[Len(cs)]
       IN  IF k \in KeysOf(f) THEN f ELSE Append(f, k)

RankIn(f, k) == (CHOOSE j \in DOMAIN f : f[j] = k) - 1

\* C1, as stated: the deduplication key is the (position-index,
\* normal-index) pair, the texture-coordinate index being ignored: a returned
\* Mesh has as many vertices as the corners reference distinct pairs, and
\* two corners with the same pair share one Vertex.
C1_PairDedup ==
  Returned =>
    /\ Len(result.vertices) = Cardinality(PairsOf(corners))
    /\ \A i, j \in DOMAIN corners :
         PairOf(corners[i]) = PairOf(corners[j])
           => result.indices[i] = result.indices[j]

\* C1, amended: the deduplication key is the whole index triple (position,
\* texture coordinate, normal): a returned Mesh has as many vertices as the
\* corners reference distinct triples, two corners share a Vertex exactly
\* when their triples are equal, and corners that differ only in the
\* texture-coordinate index get two Vertex entries.
C1_TripleDedup ==
  Returned =>
    /\ Len(result.vertices) = Cardinality(KeysOf(corners))
    /\ \A i, j \in DOMAIN corners :
         (corners[i] = corners[j]) <=> (result.indices[i] = result.indices[j])
    /\ \A i \in DOMAIN result.vertices :
         \E j \in DOMAIN corners : result.indices[j] = i - 1

\* A Mesh with two corners that differ only in the texture-coordinate index.
C1_Witness ==
  /\ Returned
  /\ \E i, j \in DOMAIN corners :
       /\ PairOf(corners[i]) = PairOf(corners[j])
       /\ corners[i] # corners[j]

\* C2: during the loop after every corner, and in every returned Mesh, each
\* VertexIndex of the index sequence is below the length of the vertex
\* sequence.
C2_IndexValid ==
  /\ InLoop => \A i \in DOMAIN indices : indices[i] < Len(vertices)
  /\ Returned =>
       \A i \in DOMAIN result.indices :
         result.indices[i] < Len(result.vertices)

\* A returned Mesh of two triangles in which a corner was found in the table.
C2_Witness ==
  /\ Returned
  /\ Len(result.indices) = 6
  /\ Len(result.vertices) < 6
  /\ Len(result.vertices) > 1

\* C3: a returned Mesh has exactly 3 indices per triangle of the group, and
\* during the loop there is one index per corner read, hit or miss.
C3_IndexCount ==
  /\ InLoop => Len(indices) = Len(corners)
  /\ pc = "shapes" => Len(corners) % 3 = 0
  /\ Returned =>
       /\ Len(corners) % 3 = 0
       /\ Len(result.indices) = 3 * (Len(corners) \div 3)

\* A returned Mesh of two triangles whose corners all name the same key.
C3_Witness ==
  /\ Returned
  /\ Len(corners) = 6
  /\ Cardinality(KeysOf(corners)) = 1

\* C4: vertices are numbered in the order their keys are first met: the
\* index of a corner is the rank of its key among the keys in first-met
\* order, so new index values appear as 0, 1, 2, ... without a gap; one
\* triangle of three distinct keys gives 3 vertices and indices [0, 1, 2],
\* and a second triangle reusing its first two corners plus a new one gives
\* 4 vertices and indices [0, 1, 2, 0, 1, 3].
C4_FirstEncounter ==
  Returned =>
    LET f == Firsts(corners) IN
    /\ \A i \in DOMAIN corners : result.indices[i] = RankIn(f, corners[i])
    /\ \A i \in DOMAIN corners :
         result.indices[i] <=
           Cardinality({result.indices[j] : j \in 1 .. i - 1})
    /\ Len(result.vertices) = Len(f)
    /\ (Len(corners) = 3 /\ Cardinality(KeysOf(corners)) = 3)
         => /\ Len(result.vertices) = 3
            /\ result.indices = << 0, 1, 2 >>
    /\ ( /\ Len(corners) = 6
         /\ Cardinality(KeysOf(SubSeq(corners, 1, 3))) = 3
         /\ corners[4] = corners[1]
         /\ corners[5] = corners[2]
         /\ corners[6] \notin KeysOf(SubSeq(corners, 1, 3)) )
         => /\ Len(result.vertices) = 4
            /\ result.indices = << 0, 1, 2, 0, 1, 3 >>

\* The second scenario has been loaded.
C4_Witness ==
  /\ Returned
  /\ Len(corners) = 6
  /\ Cardinality(KeysOf(SubSeq(corners, 1, 3))) = 3
  /\ corners[4] = corners[1]
  /\ corners[5] = corners[2]
  /\ corners[6] \notin KeysOf(SubSeq(corners, 1, 3))

C6_IoErrorsReturned ==
  (Exited /\ file \in {"missing", "unreadable"}) => result.tag = "err"

\* What Obj::load makes of an input, computed from the input alone: the
\* error of the first check that fails, else the Mesh of the keys in
\* first-met order.
ExpectedMesh(cs) ==
  LET f == Firsts(cs) IN
  Ok([j \in DOMAIN f |-> MakeVertex(f[j])],
     [i \in DOMAIN cs |-> RankIn(f, cs[i])])

ExpectedResult ==
  IF file = "missing" THEN Err("cannot open file")
  ELSE IF file = "unreadable" THEN Panic
  ELSE IF file = "malformed" THEN Err("cannot parse")
  ELSE IF nobjects # 1 THEN Err("expecting a single object")
  ELSE IF ngeoms # 1 THEN Err("expecting a single geometry")
  ELSE IF shape \in {"Point", "Line"}
    THEN Err("unsupported non-triangle shape")
  ELSE IF key # NoKey /\ ~PositionInRange(key) THEN Panic
  ELSE IF key # NoKey /\ ~IsSome(key[3])
    THEN Err("missing normal for a vertex")
  ELSE IF key # NoKey /\ ~NormalInRange(key) THEN Panic
  ELSE ExpectedMesh(corners)

\* C7: what a call of Obj::load returns depends on its input alone, whatever
\* calls came before it: every call, the first as well as a later one,
\* returns the result computed from its own input, so two calls on the same
\* input return the same vertex and index sequences; and every call enters
\* its loop with an empty table and empty sequences.
C7_Deterministic ==
  /\ Exited => result = ExpectedResult
  /\ (pc = "shapes" /\ corners = << >>)
       => /\ vertex_cache = EmptyMap
          /\ vertices = << >>
          /\ indices = << >>

\* A later call has returned a Mesh that needed the table.
C7_Witness ==
  /\ calls = MaxCalls
  /\ Returned
  /\ Len(result.indices) = 6
  /\ Len(result.vertices) = 2

\* C8, in every state of the loop and in the returned Mesh: the Vertex at
\* the index of corner i is the one built from the position and the normal
\* that corner i names.
C8_Resolved ==
  (InLoop \/ Returned) =>
    \A i \in DOMAIN indices :
      /\ indices[i] + 1 \in DOMAIN vertices
      /\ vertices[indices[i] + 1] = MakeVertex(corners[i])

\* C8, for every corner that is processed: a hit appends the stored index
\* and creates no vertex; a miss appends exactly one vertex, records the
\* key with the vertex count before the append, and appends that index.
C8_Step ==
  (pc = "corner" /\ Len(corners') = Len(corners) + 1) =>
    IF key' \in DOMAIN vertex_cache THEN
      /\ vertices' = vertices
      /\ vertex_cache' = vertex_cache
      /\ indices' = Append(indices, vertex_cache[key'])
    ELSE
      /\ vertices' = Append(vertices, MakeVertex(key'))
      /\ DOMAIN vertex_cache' = DOMAIN vertex_cache \cup {key'}
      /\ vertex_cache'[key'] = Len(vertices)
      /\ \A k \in DOMAIN vertex_cache : vertex_cache'[k] = vertex_cache[k]
      /\ indices' = Append(indices, Len(vertices))

\* C8: corner resolution in Obj::load.
C8_CornerResolution == []C8_Resolved /\ [][C8_Step]_vars

\* A returned Mesh with hits and with vertices of different positions.
C8_Witness ==
  /\ Returned
  /\ Len(result.indices) = 6
  /\ \E i, j \in DOMAIN result.vertices :
       result.vertices[i].position # result.vertices[j].position
  /\ Len(result.vertices) < 6

LoopPcs == {"poll", "events", "render", "swap", "done"}
HasExit(evs) == \E i \in DOMAIN evs : evs[i] \in {"Close", "EscapeRelease"}

C10_Inv ==
  /\ pc \in {"render", "swap"} => events = << >> /\ ~HasExit(polled)
  /\ HasExit(polled) => pc \in {"events", "done"} /\ render = "none"
  /\ render = "err" => pc \in {"swap", "done"}
  /\ swapped <= rendered
  /\ rendered <= frames
  /\ (chapter = 3 /\ pc \in LoopPcs) => mesh.built
  /\ result.tag \in {"err", "panic"}
       => frames = 0 /\ rendered = 0 /\ pc \in {"loaded", "panicked"}

\* C10, in every step: the pipeline runs only once the events are drained,
\* buffers are swapped only after a render that succeeded, a failed render
\* ends the loop, an exit event ends the loop at once, and the Tess is built
\* only from a Mesh that Obj::load returned.
C10_Step ==
  /\ rendered' # rendered => pc = "render" /\ events = << >>
  /\ swapped' # swapped
       => pc = "swap" /\ render = "ok" /\ swapped' = swapped + 1
  /\ (pc = "swap" /\ render = "err") => pc' = "done" /\ swapped' = swapped
  /\ (pc = "events" /\ events # << >>
        /\ Head(events) \in {"Close", "EscapeRelease"})
       => pc' = "done" /\ rendered' = rendered /\ swapped' = swapped
  /\ mesh' # mesh => pc = "loaded" /\ result.tag = "ok"
  /\ (pc \notin LoopPcs /\ pc' \in LoopPcs) => pc = "setup"

\* C10: the ordering of the frame loop in the three chapters.
C10_FrameLoop == []C10_Inv /\ [][C10_Step]_vars

\* Chapter 3 left its loop on an Escape release after a frame was swapped.
C10_Witness ==
  /\ chapter = 3
  /\ pc = "done"
  /\ swapped = 1
  /\ polled = << "Other", "EscapeRelease" >>
====
